---- MODULE Spec2Model ----
(***************************************************************************)
(* Pet Care Management canister (src/dfinity_js_backend/src/index.ts).     *)
(*                                                                         *)
(* Nine StableBTreeMap collections, one create handler and one list-all    *)
(* query per collection, and three filtered queries.  Every handler runs   *)
(* to completion (one canister message at a time), so each handler is one  *)
(* action.                                                                 *)
(*                                                                         *)
(* Texts are sequences of characters: <<>> is the empty string.  A text    *)
(* that is used as a key is a sequence of character codes (naturals), so   *)
(* that keys can be ordered the way the B-tree orders them.                *)
(***************************************************************************)
EXTENDS Naturals, Sequences, FiniteSets

VARIABLES
    usersStorage,         \* StableBTreeMap(0, text, User)
    petsStorage,          \* StableBTreeMap(1, text, Pet)
    appointmentsStorage,  \* StableBTreeMap(2, text, Appointment)
    healthRecordsStorage, \* StableBTreeMap(3, text, HealthRecord)
    prescriptionsStorage, \* StableBTreeMap(4, text, Prescription)
    messagesStorage,      \* StableBTreeMap(5, text, Message)
    notificationsStorage, \* StableBTreeMap(6, text, Notification)
    paymentsStorage,      \* StableBTreeMap(7, text, Payment)
    petAdoptionsStorage,  \* StableBTreeMap(8, text, PetAdoption)
    call                  \* the call that was executed and whose result is not yet returned, or Idle

stores == <<usersStorage, petsStorage, appointmentsStorage, healthRecordsStorage,
            prescriptionsStorage, messagesStorage, notificationsStorage,
            paymentsStorage, petAdoptionsStorage>>

vars == <<usersStorage, petsStorage, appointmentsStorage, healthRecordsStorage,
          prescriptionsStorage, messagesStorage, notificationsStorage,
          paymentsStorage, petAdoptionsStorage, call>>

----------------------------------------------------------------------------
(* Bounds of the model *)

\* Number of identifiers the identifier generator can hand out.
MaxIds == 4

----------------------------------------------------------------------------
(* Texts *)

EmptyText == <<>>

\* JavaScript's !x for a text: only the empty string is falsy.
IsFalsyText(t) == t = <<>>

\* JavaScript's !x for a nat64 (a bigint): only 0n is falsy.
IsFalsyNat(n) == n = 0

\* JavaScript's !x for a variant value ({ PetOwner: null } is an object): never falsy.
IsFalsyVariant(v) == FALSE

Digits == {"0", "1", "2", "3", "4", "5", "6", "7", "8", "9"}

\* \s of a JavaScript regular expression (the members the inputs can contain).
Whitespace == {" ", "\t", "\n"}

\* /^[^\s@]+@[^\s@]+\.[^\s@]+$/.test(s)
emailRegexTest(s) ==
    \E i \in 1..Len(s) : \E j \in 1..Len(s) :
        /\ 1 < i /\ i + 1 < j /\ j < Len(s)
        /\ s[i] = "@"
        /\ s[j] = "."
        /\ \A k \in 1..Len(s) : k # i => s[k] \notin (Whitespace \cup {"@"})

\* /^\+?[0-9]{10,14}$/.test(s)
phoneRegexTest(s) ==
    LET d == IF Len(s) > 0 /\ s[1] = "+" THEN SubSeq(s, 2, Len(s)) ELSE s
    IN  /\ Len(d) >= 10
        /\ Len(d) <= 14
        /\ \A k \in 1..Len(d) : d[k] \in Digits

----------------------------------------------------------------------------
(* Result type *)

Ok(v) == [kind |-> "Ok", val |-> v]

\* Err({ NotFound: `... ${id} ...` }): the message is a template and the
\* texts substituted into it.
Err(variant, fmt, args) == [kind |-> "Err", err |-> variant, fmt |-> fmt, args |-> args]

----------------------------------------------------------------------------
(* StableBTreeMap *)

EmptyMap == <<>>

\* !map.get(key) is false: get returns the value of a key that is present
\* and a falsy value for a key that is absent
ContainsKey(map, key) == key \in DOMAIN map

\* An insert that replaces the map by the new entry
Insert_ReplacesMap(map, key, value) == [k \in {key} |-> value]

\* map.insert(key, value): adds the entry, replacing the value of a key that is present
Insert(map, key, value) ==
    [k \in (DOMAIN map) \cup {key} |-> IF k = key THEN value ELSE map[k]]

\* Keys are one-character texts here; the B-tree orders them by character code.
KeyLess(a, b) == a[1] < b[1]

RECURSIVE SortedKeys(_)
SortedKeys(S) ==
    IF S = {} THEN <<>>
    ELSE LET m == CHOOSE x \in S : \A y \in S : y = x \/ KeyLess(x, y)
         IN  <<m>> \o SortedKeys(S \ {m})

\* map.values(): the values in key order
Values(map) ==
    LET ks == SortedKeys(DOMAIN map)
    IN  [i \in 1..Len(ks) |-> map[ks[i]]]

\* values.find((r) => r[field] === value) !== undefined
Finds(values, field, value) == \E i \in 1..Len(values) : values[i][field] = value

\* values.filter((r) => r[field] === value)
Filter(values, field, value) == SelectSeq(values, LAMBDA r : r[field] = value)

----------------------------------------------------------------------------
(* External collaborators *)

\* Identifiers are only generated right before an insert, so the identifiers
\* returned so far are the keys of the nine collections.
IssuedIds ==
    (DOMAIN usersStorage) \cup (DOMAIN petsStorage) \cup (DOMAIN appointmentsStorage)
    \cup (DOMAIN healthRecordsStorage) \cup (DOMAIN prescriptionsStorage)
    \cup (DOMAIN messagesStorage) \cup (DOMAIN notificationsStorage)
    \cup (DOMAIN paymentsStorage) \cup (DOMAIN petAdoptionsStorage)

\* The n-th identifier of the generator's pseudo-random stream.  The stream
\* 3, 6, 2, 5, 1, 4, 0 never repeats an identifier and is not in key order, so
\* the key order of a collection differs from its insertion order.
UuidStream(n) == <<(3 * n) % 7>>

AllIds == {UuidStream(n) : n \in 1..MaxIds}

\* The values uuidv4() can return: the next identifier of the stream, until
\* the MaxIds identifiers of the model are used up.
uuidv4 ==
    IF Cardinality(IssuedIds) < MaxIds
    THEN {UuidStream(Cardinality(IssuedIds) + 1)}
    ELSE {}

\* Date.prototype.toISOString, for a time given in milliseconds (below 10)
toISOString(ms) == <<"1970-01-01T00:00:00.00", ms, "Z">>

\* The values new Date().toISOString() can return.  The clock of the model
\* advances by one millisecond with every record stored.
Timestamps == {toISOString(Cardinality(IssuedIds))}

----------------------------------------------------------------------------
(* Inputs *)

UserRole == {"PetOwner", "Veterinarian", "Admin"}

\* Texts a caller can pass where an identifier is expected: the empty text and
\* every identifier of the model, issued or not.
IdTexts == {EmptyText} \cup AllIds

Usernames == {EmptyText, <<"j">>, <<"k">>}

Emails ==
    { EmptyText,
      <<"j", "@", "x", ".", "c">>,
      <<"k", "@", "x", ".", "c">>,
      <<"j", "@", "x">>,
      <<"j", " ", "@", "x", ".", "c">> }

Phones ==
    { EmptyText,
      <<"+", "1", "2", "3", "4", "5", "6", "7", "8", "9", "0">>,
      <<"1", "2", "3", "4", "5", "6", "7", "8", "9">>,
      <<"1", "2", "3", "4", "5", "6", "7", "8", "9", "0", "1", "2", "3", "4", "5">> }

\* Texts of fields that are only tested for presence.
Words == {EmptyText, <<"x">>}

Ages == {0, 3}

Amounts == {0, 3}

\* The role and the age are never tested by the code: each sample username
\* comes with one role, and each sample owner with one age.
SampleRole(username) ==
    IF username = <<"j">> THEN "PetOwner"
    ELSE IF username = <<"k">> THEN "Veterinarian"
    ELSE "Admin"

SampleAge(ownerId) == IF ownerId = EmptyText THEN 0 ELSE 3

UserPayload ==
    { p \in [username : Usernames, email : Emails, phoneNumber : Phones, role : UserRole] :
        p.role = SampleRole(p.username) }

PetPayload ==
    { p \in [ownerId : IdTexts, name : Words, species : Words, breed : Words, age : Ages] :
        p.age = SampleAge(p.ownerId) }

AppointmentPayload == [petId : IdTexts, veterinarianId : IdTexts, date : Words]

HealthRecordPayload == [petId : IdTexts, veterinarianId : IdTexts, record : Words]

PrescriptionPayload ==
    [petId : IdTexts, veterinarianId : IdTexts, medication : Words, dosage : Words]

MessagePayload == [senderId : IdTexts, recipientId : IdTexts, content : Words]

NotificationArgs == [userId : IdTexts, message : Words]

PaymentPayload == [userId : IdTexts, appointmentId : IdTexts, amount : Amounts]

PetAdoptionPayload == [petId : IdTexts, adopterId : IdTexts]

----------------------------------------------------------------------------
(* Handlers *)

\* The canister executes one call at a time, each to completion.  The executed
\* call and its result stay in `call` until the result is returned to the caller.
Idle == [op |-> "idle"]

Call(op, arg, res) == [op |-> op, arg |-> arg, res |-> res]

\* The outcome of a handler's validation when no check fails
Pass == [kind |-> "Pass"]

\* createUser without the scan for an existing username
createUserCheck_NoUsernameScan(payload) ==
    IF \/ IsFalsyText(payload.username)
       \/ IsFalsyText(payload.email)
       \/ IsFalsyText(payload.phoneNumber)
       \/ IsFalsyVariant(payload.role)
    THEN Err("InvalidPayload", "All fields are required", <<>>)
    ELSE IF ~emailRegexTest(payload.email)
    THEN Err("InvalidPayload", "Invalid email format", <<>>)
    ELSE IF Finds(Values(usersStorage), "email", payload.email)
    THEN Err("InvalidPayload", "User with email already exists", <<>>)
    ELSE IF ~phoneRegexTest(payload.phoneNumber)
    THEN Err("InvalidPayload", "Invalid phone number format", <<>>)
    ELSE Pass

\* createUser without the scan for an existing email
createUserCheck_NoEmailScan(payload) ==
    IF \/ IsFalsyText(payload.username)
       \/ IsFalsyText(payload.email)
       \/ IsFalsyText(payload.phoneNumber)
       \/ IsFalsyVariant(payload.role)
    THEN Err("InvalidPayload", "All fields are required", <<>>)
    ELSE IF ~emailRegexTest(payload.email)
    THEN Err("InvalidPayload", "Invalid email format", <<>>)
    ELSE IF Finds(Values(usersStorage), "username", payload.username)
    THEN Err("InvalidPayload", "User with username already exists, try another one", <<>>)
    ELSE IF ~phoneRegexTest(payload.phoneNumber)
    THEN Err("InvalidPayload", "Invalid phone number format", <<>>)
    ELSE Pass

\* createUser, up to the generation of the id: the error returned, or Pass
createUserCheck(payload) ==
    IF \/ IsFalsyText(payload.username)
       \/ IsFalsyText(payload.email)
       \/ IsFalsyText(payload.phoneNumber)
       \/ IsFalsyVariant(payload.role)
    THEN Err("InvalidPayload", "All fields are required", <<>>)
    ELSE IF ~emailRegexTest(payload.email)
    THEN Err("InvalidPayload", "Invalid email format", <<>>)
    ELSE IF Finds(Values(usersStorage), "email", payload.email)
    THEN Err("InvalidPayload", "User with email already exists", <<>>)
    ELSE IF Finds(Values(usersStorage), "username", payload.username)
    THEN Err("InvalidPayload", "User with username already exists, try another one", <<>>)
    ELSE IF ~phoneRegexTest(payload.phoneNumber)
    THEN Err("InvalidPayload", "Invalid phone number format", <<>>)
    ELSE Pass

createUserRecord(payload, id, now) ==
    [ id |-> id,
      username |-> payload.username,
      email |-> payload.email,
      phoneNumber |-> payload.phoneNumber,
      role |-> payload.role,
      createdAt |-> now ]

createUser ==
    /\ call = Idle
    /\ \E payload \in UserPayload :
        LET chk == createUserCheck(payload)
        IN  IF chk.kind = "Err"
            THEN /\ call' = Call("createUser", payload, chk)
                 /\ UNCHANGED stores
            ELSE \E id \in uuidv4 : \E now \in Timestamps :
                    LET user == createUserRecord(payload, id, now)
                    IN  /\ usersStorage' = Insert(usersStorage, id, user)
                        /\ call' = Call("createUser", payload, Ok(user))
                        /\ UNCHANGED <<petsStorage, appointmentsStorage,
                                       healthRecordsStorage, prescriptionsStorage,
                                       messagesStorage, notificationsStorage,
                                       paymentsStorage, petAdoptionsStorage>>

\* A list-all query that returns the empty sequence instead of NotFound
ListAll_EmptyIsOk(values, message) == Ok(values)

\* A list-all query over the values of a collection
ListAll(values, message) ==
    IF Len(values) = 0 THEN Err("NotFound", message, <<>>) ELSE Ok(values)

getUsersResult == ListAll(Values(usersStorage), "No users found")

getUsers ==
    /\ call = Idle
    /\ call' = Call("getUsers", <<>>, getUsersResult)
    /\ UNCHANGED stores

\* addPet that looks the owner up
addPetCheck_OwnerLookup(payload) ==
    IF \/ IsFalsyText(payload.name)
       \/ IsFalsyText(payload.species)
       \/ IsFalsyText(payload.breed)
    THEN Err("InvalidPayload", "All fields are required", <<>>)
    ELSE IF ~ContainsKey(usersStorage, payload.ownerId)
    THEN Err("NotFound", "User with id ${} not found", <<payload.ownerId>>)
    ELSE Pass

addPetCheck(payload) ==
    IF \/ IsFalsyText(payload.name)
       \/ IsFalsyText(payload.species)
       \/ IsFalsyText(payload.breed)
    THEN Err("InvalidPayload", "All fields are required", <<>>)
    ELSE Pass

\* A Pet record that leaves the age at 0
addPetRecord_AgeNotCopied(payload, id, now) ==
    [ id |-> id,
      ownerId |-> payload.ownerId,
      name |-> payload.name,
      species |-> payload.species,
      breed |-> payload.breed,
      age |-> 0,
      createdAt |-> now ]

addPetRecord(payload, id, now) ==
    [ id |-> id,
      ownerId |-> payload.ownerId,
      name |-> payload.name,
      species |-> payload.species,
      breed |-> payload.breed,
      age |-> payload.age,
      createdAt |-> now ]

addPet ==
    /\ call = Idle
    /\ \E payload \in PetPayload :
        LET chk == addPetCheck(payload)
        IN  IF chk.kind = "Err"
            THEN /\ call' = Call("addPet", payload, chk)
                 /\ UNCHANGED stores
            ELSE \E id \in uuidv4 : \E now \in Timestamps :
                    LET pet == addPetRecord(payload, id, now)
                    IN  /\ petsStorage' = Insert(petsStorage, id, pet)
                        /\ call' = Call("addPet", payload, Ok(pet))
                        /\ UNCHANGED <<usersStorage, appointmentsStorage,
                                       healthRecordsStorage, prescriptionsStorage,
                                       messagesStorage, notificationsStorage,
                                       paymentsStorage, petAdoptionsStorage>>

getPetsResult == ListAll(Values(petsStorage), "No pets found")

getPets ==
    /\ call = Idle
    /\ call' = Call("getPets", <<>>, getPetsResult)
    /\ UNCHANGED stores

\* scheduleAppointment without the lookup of the pet
scheduleAppointmentCheck_NoPetLookup(payload) ==
    IF \/ IsFalsyText(payload.petId)
       \/ IsFalsyText(payload.veterinarianId)
       \/ IsFalsyText(payload.date)
    THEN Err("InvalidPayload", "All fields are required", <<>>)
    ELSE IF ~ContainsKey(usersStorage, payload.veterinarianId)
    THEN Err("NotFound", "Veterinarian not found", <<>>)
    ELSE Pass

\* scheduleAppointment, up to the generation of the id
scheduleAppointmentCheck(payload) ==
    IF \/ IsFalsyText(payload.petId)
       \/ IsFalsyText(payload.veterinarianId)
       \/ IsFalsyText(payload.date)
    THEN Err("InvalidPayload", "All fields are required", <<>>)
    ELSE IF ~ContainsKey(petsStorage, payload.petId)
    THEN Err("NotFound", "Pet not found", <<>>)
    ELSE IF ~ContainsKey(usersStorage, payload.veterinarianId)
    THEN Err("NotFound", "Veterinarian not found", <<>>)
    ELSE Pass

\* An Appointment record that is created as confirmed
scheduleAppointmentRecord_Confirmed(payload, id, now) ==
    [ id |-> id,
      petId |-> payload.petId,
      veterinarianId |-> payload.veterinarianId,
      date |-> payload.date,
      status |-> "confirmed",
      createdAt |-> now ]

scheduleAppointmentRecord(payload, id, now) ==
    [ id |-> id,
      petId |-> payload.petId,
      veterinarianId |-> payload.veterinarianId,
      date |-> payload.date,
      status |-> "scheduled",
      createdAt |-> now ]

scheduleAppointment ==
    /\ call = Idle
    /\ \E payload \in AppointmentPayload :
        LET chk == scheduleAppointmentCheck(payload)
        IN  IF chk.kind = "Err"
            THEN /\ call' = Call("scheduleAppointment", payload, chk)
                 /\ UNCHANGED stores
            ELSE \E id \in uuidv4 : \E now \in Timestamps :
                    LET appointment == scheduleAppointmentRecord(payload, id, now)
                    IN  /\ appointmentsStorage' = Insert(appointmentsStorage, id, appointment)
                        /\ call' = Call("scheduleAppointment", payload, Ok(appointment))
                        /\ UNCHANGED <<usersStorage, petsStorage,
                                       healthRecordsStorage, prescriptionsStorage,
                                       messagesStorage, notificationsStorage,
                                       paymentsStorage, petAdoptionsStorage>>

getAppointmentsResult == ListAll(Values(appointmentsStorage), "No appointments found")

getAppointments ==
    /\ call = Idle
    /\ call' = Call("getAppointments", <<>>, getAppointmentsResult)
    /\ UNCHANGED stores

\* addHealthRecord, up to the generation of the id
addHealthRecordCheck(payload) ==
    IF IsFalsyText(payload.record)
    THEN Err("InvalidPayload", "Record is required", <<>>)
    ELSE IF ~ContainsKey(petsStorage, payload.petId)
    THEN Err("NotFound", "Pet with id ${} not found", <<payload.petId>>)
    ELSE IF ~ContainsKey(usersStorage, payload.veterinarianId)
    THEN Err("NotFound", "Veterinarian with id ${} not found", <<payload.veterinarianId>>)
    ELSE Pass

addHealthRecordRecord(payload, id, now) ==
    [ id |-> id,
      petId |-> payload.petId,
      veterinarianId |-> payload.veterinarianId,
      record |-> payload.record,
      createdAt |-> now ]

addHealthRecord ==
    /\ call = Idle
    /\ \E payload \in HealthRecordPayload :
        LET chk == addHealthRecordCheck(payload)
        IN  IF chk.kind = "Err"
            THEN /\ call' = Call("addHealthRecord", payload, chk)
                 /\ UNCHANGED stores
            ELSE \E id \in uuidv4 : \E now \in Timestamps :
                    LET healthRecord == addHealthRecordRecord(payload, id, now)
                    IN  /\ healthRecordsStorage' = Insert(healthRecordsStorage, id, healthRecord)
                        /\ call' = Call("addHealthRecord", payload, Ok(healthRecord))
                        /\ UNCHANGED <<usersStorage, petsStorage,
                                       appointmentsStorage, prescriptionsStorage,
                                       messagesStorage, notificationsStorage,
                                       paymentsStorage, petAdoptionsStorage>>

getHealthRecordsResult == ListAll(Values(healthRecordsStorage), "No health records found")

getHealthRecords ==
    /\ call = Idle
    /\ call' = Call("getHealthRecords", <<>>, getHealthRecordsResult)
    /\ UNCHANGED stores

\* addPrescription, up to the generation of the id
addPrescriptionCheck(payload) ==
    IF \/ IsFalsyText(payload.medication)
       \/ IsFalsyText(payload.dosage)
    THEN Err("InvalidPayload", "All fields are required", <<>>)
    ELSE IF ~ContainsKey(petsStorage, payload.petId)
    THEN Err("NotFound", "Pet with id ${} not found", <<payload.petId>>)
    ELSE IF ~ContainsKey(usersStorage, payload.veterinarianId)
    THEN Err("NotFound", "Veterinarian with id ${} not found", <<payload.veterinarianId>>)
    ELSE Pass

addPrescriptionRecord(payload, id, now) ==
    [ id |-> id,
      petId |-> payload.petId,
      veterinarianId |-> payload.veterinarianId,
      medication |-> payload.medication,
      dosage |-> payload.dosage,
      createdAt |-> now ]

\* addPrescription that also files the prescription as a health record
addPrescription_FilesHealthRecord ==
    /\ call = Idle
    /\ \E payload \in PrescriptionPayload :
        LET chk == addPrescriptionCheck(payload)
        IN  IF chk.kind = "Err"
            THEN /\ call' = Call("addPrescription", payload, chk)
                 /\ UNCHANGED stores
            ELSE \E id \in uuidv4 : \E now \in Timestamps :
                    LET prescription == addPrescriptionRecord(payload, id, now)
                        healthRecord ==
                            addHealthRecordRecord(
                                [ petId |-> payload.petId,
                                  veterinarianId |-> payload.veterinarianId,
                                  record |-> payload.medication ], id, now)
                    IN  /\ prescriptionsStorage' = Insert(prescriptionsStorage, id, prescription)
                        /\ healthRecordsStorage' = Insert(healthRecordsStorage, id, healthRecord)
                        /\ call' = Call("addPrescription", payload, Ok(prescription))
                        /\ UNCHANGED <<usersStorage, petsStorage,
                                       appointmentsStorage,
                                       messagesStorage, notificationsStorage,
                                       paymentsStorage, petAdoptionsStorage>>

addPrescription ==
    /\ call = Idle
    /\ \E payload \in PrescriptionPayload :
        LET chk == addPrescriptionCheck(payload)
        IN  IF chk.kind = "Err"
            THEN /\ call' = Call("addPrescription", payload, chk)
                 /\ UNCHANGED stores
            ELSE \E id \in uuidv4 : \E now \in Timestamps :
                    LET prescription == addPrescriptionRecord(payload, id, now)
                    IN  /\ prescriptionsStorage' = Insert(prescriptionsStorage, id, prescription)
                        /\ call' = Call("addPrescription", payload, Ok(prescription))
                        /\ UNCHANGED <<usersStorage, petsStorage,
                                       appointmentsStorage, healthRecordsStorage,
                                       messagesStorage, notificationsStorage,
                                       paymentsStorage, petAdoptionsStorage>>

getPrescriptionsResult == ListAll(Values(prescriptionsStorage), "No prescriptions found")

getPrescriptions ==
    /\ call = Idle
    /\ call' = Call("getPrescriptions", <<>>, getPrescriptionsResult)
    /\ UNCHANGED stores

\* sendMessage, up to the generation of the id
sendMessageCheck(payload) ==
    IF \/ IsFalsyText(payload.senderId)
       \/ IsFalsyText(payload.recipientId)
       \/ IsFalsyText(payload.content)
    THEN Err("InvalidPayload", "All fields are required", <<>>)
    ELSE IF ~ContainsKey(usersStorage, payload.senderId)
    THEN Err("NotFound", "User with id ${} not found", <<payload.senderId>>)
    ELSE IF ~ContainsKey(usersStorage, payload.recipientId)
    THEN Err("NotFound", "User with id ${} not found", <<payload.recipientId>>)
    ELSE Pass

sendMessageRecord(payload, id, now) ==
    [ id |-> id,
      senderId |-> payload.senderId,
      recipientId |-> payload.recipientId,
      content |-> payload.content,
      createdAt |-> now ]

sendMessage ==
    /\ call = Idle
    /\ \E payload \in MessagePayload :
        LET chk == sendMessageCheck(payload)
        IN  IF chk.kind = "Err"
            THEN /\ call' = Call("sendMessage", payload, chk)
                 /\ UNCHANGED stores
            ELSE \E id \in uuidv4 : \E now \in Timestamps :
                    LET message == sendMessageRecord(payload, id, now)
                    IN  /\ messagesStorage' = Insert(messagesStorage, id, message)
                        /\ call' = Call("sendMessage", payload, Ok(message))
                        /\ UNCHANGED <<usersStorage, petsStorage,
                                       appointmentsStorage, healthRecordsStorage,
                                       prescriptionsStorage, notificationsStorage,
                                       paymentsStorage, petAdoptionsStorage>>

getMessagesResult == ListAll(Values(messagesStorage), "No messages found")

getMessages ==
    /\ call = Idle
    /\ call' = Call("getMessages", <<>>, getMessagesResult)
    /\ UNCHANGED stores

\* sendNotification(userId, message), up to the generation of the id
sendNotificationCheck(args) ==
    IF ~ContainsKey(usersStorage, args.userId)
    THEN Err("NotFound", "User with id ${} not found", <<args.userId>>)
    ELSE Pass

\* A Notification record whose id is the id of the user it is for
sendNotificationRecord_IdIsUserId(args, id, now) ==
    [ id |-> args.userId,
      userId |-> args.userId,
      message |-> args.message,
      createdAt |-> now ]

sendNotificationRecord(args, id, now) ==
    [ id |-> id,
      userId |-> args.userId,
      message |-> args.message,
      createdAt |-> now ]

sendNotification ==
    /\ call = Idle
    /\ \E args \in NotificationArgs :
        LET chk == sendNotificationCheck(args)
        IN  IF chk.kind = "Err"
            THEN /\ call' = Call("sendNotification", args, chk)
                 /\ UNCHANGED stores
            ELSE \E id \in uuidv4 : \E now \in Timestamps :
                    LET notification == sendNotificationRecord(args, id, now)
                    IN  /\ notificationsStorage' = Insert(notificationsStorage, id, notification)
                        /\ call' = Call("sendNotification", args, Ok(notification))
                        /\ UNCHANGED <<usersStorage, petsStorage,
                                       appointmentsStorage, healthRecordsStorage,
                                       prescriptionsStorage, messagesStorage,
                                       paymentsStorage, petAdoptionsStorage>>

getNotificationsResult == ListAll(Values(notificationsStorage), "No notifications found")

\* getNotifications that removes the notifications it has delivered
getNotifications_RemovesDelivered ==
    /\ call = Idle
    /\ call' = Call("getNotifications", <<>>, getNotificationsResult)
    /\ notificationsStorage' = EmptyMap
    /\ UNCHANGED <<usersStorage, petsStorage, appointmentsStorage,
                   healthRecordsStorage, prescriptionsStorage, messagesStorage,
                   paymentsStorage, petAdoptionsStorage>>

getNotifications ==
    /\ call = Idle
    /\ call' = Call("getNotifications", <<>>, getNotificationsResult)
    /\ UNCHANGED stores

\* makePayment without the test of the amount
makePaymentCheck_AmountUnchecked(payload) ==
    IF \/ IsFalsyText(payload.userId)
       \/ IsFalsyText(payload.appointmentId)
    THEN Err("InvalidPayload", "All fields are required", <<>>)
    ELSE IF ~ContainsKey(usersStorage, payload.userId)
    THEN Err("NotFound", "User with id ${} not found", <<payload.userId>>)
    ELSE IF ~ContainsKey(appointmentsStorage, payload.appointmentId)
    THEN Err("NotFound", "Appointment with id ${} not found", <<payload.appointmentId>>)
    ELSE Pass

\* makePayment without the lookup of the appointment
makePaymentCheck_NoAppointmentLookup(payload) ==
    IF \/ IsFalsyText(payload.userId)
       \/ IsFalsyText(payload.appointmentId)
       \/ IsFalsyNat(payload.amount)
    THEN Err("InvalidPayload", "All fields are required", <<>>)
    ELSE IF ~ContainsKey(usersStorage, payload.userId)
    THEN Err("NotFound", "User with id ${} not found", <<payload.userId>>)
    ELSE Pass

\* makePayment, up to the generation of the id
makePaymentCheck(payload) ==
    IF \/ IsFalsyText(payload.userId)
       \/ IsFalsyText(payload.appointmentId)
       \/ IsFalsyNat(payload.amount)
    THEN Err("InvalidPayload", "All fields are required", <<>>)
    ELSE IF ~ContainsKey(usersStorage, payload.userId)
    THEN Err("NotFound", "User with id ${} not found", <<payload.userId>>)
    ELSE IF ~ContainsKey(appointmentsStorage, payload.appointmentId)
    THEN Err("NotFound", "Appointment with id ${} not found", <<payload.appointmentId>>)
    ELSE Pass

makePaymentRecord(payload, id, now) ==
    [ id |-> id,
      userId |-> payload.userId,
      appointmentId |-> payload.appointmentId,
      amount |-> payload.amount,
      status |-> "pending",
      createdAt |-> now ]

\* makePayment that stores the payment before it validates it
makePayment_InsertsBeforeValidation ==
    /\ call = Idle
    /\ \E payload \in PaymentPayload :
        \E id \in uuidv4 : \E now \in Timestamps :
            LET chk == makePaymentCheck(payload)
                payment == makePaymentRecord(payload, id, now)
            IN  /\ paymentsStorage' = Insert(paymentsStorage, id, payment)
                /\ call' = Call("makePayment", payload,
                                IF chk.kind = "Err" THEN chk ELSE Ok(payment))
                /\ UNCHANGED <<usersStorage, petsStorage,
                               appointmentsStorage, healthRecordsStorage,
                               prescriptionsStorage, messagesStorage,
                               notificationsStorage, petAdoptionsStorage>>

makePayment ==
    /\ call = Idle
    /\ \E payload \in PaymentPayload :
        LET chk == makePaymentCheck(payload)
        IN  IF chk.kind = "Err"
            THEN /\ call' = Call("makePayment", payload, chk)
                 /\ UNCHANGED stores
            ELSE \E id \in uuidv4 : \E now \in Timestamps :
                    LET payment == makePaymentRecord(payload, id, now)
                    IN  /\ paymentsStorage' = Insert(paymentsStorage, id, payment)
                        /\ call' = Call("makePayment", payload, Ok(payment))
                        /\ UNCHANGED <<usersStorage, petsStorage,
                                       appointmentsStorage, healthRecordsStorage,
                                       prescriptionsStorage, messagesStorage,
                                       notificationsStorage, petAdoptionsStorage>>

getPaymentsResult == ListAll(Values(paymentsStorage), "No payments found")

getPayments ==
    /\ call = Idle
    /\ call' = Call("getPayments", <<>>, getPaymentsResult)
    /\ UNCHANGED stores

\* adoptPet, up to the generation of the id
adoptPetCheck(payload) ==
    IF \/ IsFalsyText(payload.petId)
       \/ IsFalsyText(payload.adopterId)
    THEN Err("InvalidPayload", "All fields are required", <<>>)
    ELSE IF ~ContainsKey(petsStorage, payload.petId)
    THEN Err("NotFound", "Pet with id ${} not found", <<payload.petId>>)
    ELSE IF ~ContainsKey(usersStorage, payload.adopterId)
    THEN Err("NotFound", "User with id ${} not found", <<payload.adopterId>>)
    ELSE Pass

adoptPetRecord(payload, id, now) ==
    [ id |-> id,
      petId |-> payload.petId,
      adopterId |-> payload.adopterId,
      status |-> "pending",
      createdAt |-> now ]

\* adoptPet that also makes the adopter the owner of the pet
adoptPet_TransfersOwnership ==
    /\ call = Idle
    /\ \E payload \in PetAdoptionPayload :
        LET chk == adoptPetCheck(payload)
        IN  IF chk.kind = "Err"
            THEN /\ call' = Call("adoptPet", payload, chk)
                 /\ UNCHANGED stores
            ELSE \E id \in uuidv4 : \E now \in Timestamps :
                    LET petAdoption == adoptPetRecord(payload, id, now)
                        pet == petsStorage[payload.petId]
                    IN  /\ petAdoptionsStorage' = Insert(petAdoptionsStorage, id, petAdoption)
                        /\ petsStorage' =
                              Insert(petsStorage, payload.petId,
                                     [pet EXCEPT !.ownerId = payload.adopterId])
                        /\ call' = Call("adoptPet", payload, Ok(petAdoption))
                        /\ UNCHANGED <<usersStorage,
                                       appointmentsStorage, healthRecordsStorage,
                                       prescriptionsStorage, messagesStorage,
                                       notificationsStorage, paymentsStorage>>

adoptPet ==
    /\ call = Idle
    /\ \E payload \in PetAdoptionPayload :
        LET chk == adoptPetCheck(payload)
        IN  IF chk.kind = "Err"
            THEN /\ call' = Call("adoptPet", payload, chk)
                 /\ UNCHANGED stores
            ELSE \E id \in uuidv4 : \E now \in Timestamps :
                    LET petAdoption == adoptPetRecord(payload, id, now)
                    IN  /\ petAdoptionsStorage' = Insert(petAdoptionsStorage, id, petAdoption)
                        /\ call' = Call("adoptPet", payload, Ok(petAdoption))
                        /\ UNCHANGED <<usersStorage, petsStorage,
                                       appointmentsStorage, healthRecordsStorage,
                                       prescriptionsStorage, messagesStorage,
                                       notificationsStorage, paymentsStorage>>

getPetAdoptionsResult == ListAll(Values(petAdoptionsStorage), "No pet adoptions found")

getPetAdoptions ==
    /\ call = Idle
    /\ call' = Call("getPetAdoptions", <<>>, getPetAdoptionsResult)
    /\ UNCHANGED stores

\* A filtered query over the selected values of a collection
getUserPetsResult(userId) ==
    ListAll(Filter(Values(petsStorage), "ownerId", userId),
            "No pets found for user")

getUserPets ==
    /\ call = Idle
    /\ \E userId \in IdTexts :
        call' = Call("getUserPets", userId, getUserPetsResult(userId))
    /\ UNCHANGED stores

\* getUserAppointments that selects by the veterinarian
getUserAppointmentsResult_ByVeterinarian(userId) ==
    ListAll(Filter(Values(appointmentsStorage), "veterinarianId", userId),
            "No appointments found for user")

getUserAppointmentsResult(userId) ==
    ListAll(Filter(Values(appointmentsStorage), "petId", userId),
            "No appointments found for user")

getUserAppointments ==
    /\ call = Idle
    /\ \E userId \in IdTexts :
        call' = Call("getUserAppointments", userId, getUserAppointmentsResult(userId))
    /\ UNCHANGED stores

getUserHealthRecordsResult(userId) ==
    ListAll(Filter(Values(healthRecordsStorage), "petId", userId),
            "No health records found for user")

getUserHealthRecords ==
    /\ call = Idle
    /\ \E userId \in IdTexts :
        call' = Call("getUserHealthRecords", userId, getUserHealthRecordsResult(userId))
    /\ UNCHANGED stores

----------------------------------------------------------------------------

Init ==
    /\ usersStorage = EmptyMap
    /\ petsStorage = EmptyMap
    /\ appointmentsStorage = EmptyMap
    /\ healthRecordsStorage = EmptyMap
    /\ prescriptionsStorage = EmptyMap
    /\ messagesStorage = EmptyMap
    /\ notificationsStorage = EmptyMap
    /\ paymentsStorage = EmptyMap
    /\ petAdoptionsStorage = EmptyMap
    /\ call = Idle

\* The result of the executed call is returned to the caller.
Return ==
    /\ call # Idle
    /\ call' = Idle
    /\ UNCHANGED stores

Next ==
    \/ Return
    \/ createUser
    \/ getUsers
    \/ addPet
    \/ getPets
    \/ getUserPets
    \/ scheduleAppointment
    \/ getAppointments
    \/ getUserAppointments
    \/ addHealthRecord
    \/ getHealthRecords
    \/ getUserHealthRecords
    \/ addPrescription
    \/ getPrescriptions
    \/ sendMessage
    \/ getMessages
    \/ sendNotification
    \/ getNotifications
    \/ makePayment
    \/ getPayments
    \/ adoptPet
    \/ getPetAdoptions

Spec == Init /\ [][Next]_vars

----------------------------------------------------------------------------
(* Properties *)

\* The records of a collection
Records(map) == {map[k] : k \in DOMAIN map}

CreateOps ==
    { "createUser", "addPet", "scheduleAppointment", "addHealthRecord",
      "addPrescription", "sendMessage", "sendNotification", "makePayment",
      "adoptPet" }

\* A step in which the handler `op` is executed
Executes(op) == call = Idle /\ call'.op = op

\* C1: in every reachable state no two distinct User records have the same
\* email and no two distinct User records have the same username.
C1_UniqueEmailAndUsername ==
    \A a \in DOMAIN usersStorage : \A b \in DOMAIN usersStorage :
        a # b =>
            /\ usersStorage[a].email # usersStorage[b].email
            /\ usersStorage[a].username # usersStorage[b].username

\* createUser has just stored a second user.
C1_Witness ==
    /\ Cardinality(DOMAIN usersStorage) = 2
    /\ call.op = "createUser"
    /\ call.res.kind = "Ok"

\* C2: in every reachable state every reference that must exist resolves.
C2_ReferencesResolve ==
    /\ \A r \in Records(appointmentsStorage) \cup Records(healthRecordsStorage)
                \cup Records(prescriptionsStorage) :
            /\ r.petId \in DOMAIN petsStorage
            /\ r.veterinarianId \in DOMAIN usersStorage
    /\ \A r \in Records(messagesStorage) :
            /\ r.senderId \in DOMAIN usersStorage
            /\ r.recipientId \in DOMAIN usersStorage
    /\ \A r \in Records(notificationsStorage) : r.userId \in DOMAIN usersStorage
    /\ \A r \in Records(paymentsStorage) :
            /\ r.userId \in DOMAIN usersStorage
            /\ r.appointmentId \in DOMAIN appointmentsStorage
    /\ \A r \in Records(petAdoptionsStorage) :
            /\ r.petId \in DOMAIN petsStorage
            /\ r.adopterId \in DOMAIN usersStorage

\* A payment is stored, which refers to a user and to an appointment, which
\* refers to a pet and to a veterinarian.
C2_Witness ==
    /\ call.op = "makePayment"
    /\ call.res.kind = "Ok"
    /\ paymentsStorage # EmptyMap
    /\ appointmentsStorage # EmptyMap

\* C3: createUser with a payload whose email equals the email of a stored
\* User returns InvalidPayload, and the number of Users stays the same.
C3_DuplicateEmailRejected ==
    [][ ( /\ Executes("createUser")
          /\ \E u \in Records(usersStorage) : u.email = call'.arg.email )
        => /\ call'.res.kind = "Err"
           /\ call'.res.err = "InvalidPayload"
           /\ Cardinality(DOMAIN usersStorage') = Cardinality(DOMAIN usersStorage)
      ]_vars

\* createUser has refused a well-formed payload whose email is taken and
\* whose username is not.
C3_Witness ==
    /\ call.op = "createUser"
    /\ call.res.kind = "Err"
    /\ call.res.err = "InvalidPayload"
    /\ \E u \in Records(usersStorage) : u.email = call.arg.email
    /\ \A u \in Records(usersStorage) : u.username # call.arg.username
    /\ ~IsFalsyText(call.arg.username)
    /\ phoneRegexTest(call.arg.phoneNumber)

\* C4, as claimed: scheduleAppointment with a petId that is not a Pet key
\* returns NotFound whatever the other fields are, empty ones included, and
\* leaves the Appointment collection unchanged.
C4_Original ==
    [][ ( /\ Executes("scheduleAppointment")
          /\ call'.arg.petId \notin DOMAIN petsStorage )
        => /\ call'.res.kind = "Err"
           /\ call'.res.err = "NotFound"
           /\ appointmentsStorage' = appointmentsStorage
      ]_vars

\* C4, amended: scheduleAppointment with a petId that is not a Pet key
\* leaves the Appointment collection unchanged; it returns InvalidPayload
\* when petId, veterinarianId or date is empty, and NotFound otherwise.
C4_MissingPetRejected ==
    [][ ( /\ Executes("scheduleAppointment")
          /\ call'.arg.petId \notin DOMAIN petsStorage )
        => /\ call'.res.kind = "Err"
           /\ call'.res.err =
                IF \/ call'.arg.petId = EmptyText
                   \/ call'.arg.veterinarianId = EmptyText
                   \/ call'.arg.date = EmptyText
                THEN "InvalidPayload"
                ELSE "NotFound"
           /\ appointmentsStorage' = appointmentsStorage
      ]_vars

\* scheduleAppointment has returned NotFound for a payload whose petId is the
\* key of no Pet and whose veterinarianId is the key of a User.
C4_Witness ==
    /\ call.op = "scheduleAppointment"
    /\ call.arg.petId \notin DOMAIN petsStorage
    /\ call.arg.veterinarianId \in DOMAIN usersStorage
    /\ call.res.kind = "Err"
    /\ call.res.err = "NotFound"

\* The fields of a create handler's input that the handler tests for presence
PresenceChecked(op) ==
    CASE op = "createUser" -> {"username", "email", "phoneNumber"}
      [] op = "addPet" -> {"name", "species", "breed"}
      [] op = "scheduleAppointment" -> {"petId", "veterinarianId", "date"}
      [] op = "addHealthRecord" -> {"record"}
      [] op = "addPrescription" -> {"medication", "dosage"}
      [] op = "sendMessage" -> {"senderId", "recipientId", "content"}
      [] op = "sendNotification" -> {}
      [] op = "makePayment" -> {"userId", "appointmentId", "amount"}
      [] op = "adoptPet" -> {"petId", "adopterId"}

\* A field of `arg` that JavaScript's !x finds missing
IsMissing(arg, f) == IF f = "amount" THEN arg[f] = 0 ELSE arg[f] = EmptyText

\* C5, as claimed: a create handler returns the error of the first failing
\* check in the order presence, format, uniqueness, referential existence.
\* For createUser: a payload with all fields present and an ill-formed email or
\* phone number gets the format error, also when its email or username is
\* taken.  For the other handlers: a payload with a missing required field
\* gets InvalidPayload, also when a reference of it does not resolve.
C5_ValidationOrder ==
    /\ ( /\ call.op = "createUser"
         /\ \A f \in PresenceChecked("createUser") : ~IsMissing(call.arg, f)
         /\ ~emailRegexTest(call.arg.email) )
       => ( call.res.kind = "Err" /\ call.res.fmt = "Invalid email format" )
    /\ ( /\ call.op = "createUser"
         /\ \A f \in PresenceChecked("createUser") : ~IsMissing(call.arg, f)
         /\ emailRegexTest(call.arg.email)
         /\ ~phoneRegexTest(call.arg.phoneNumber) )
       => ( call.res.kind = "Err" /\ call.res.fmt = "Invalid phone number format" )
    /\ ( /\ call.op \in CreateOps
         /\ \E f \in PresenceChecked(call.op) : IsMissing(call.arg, f) )
       => ( call.res.kind = "Err" /\ call.res.err = "InvalidPayload" )

\* The entity a NotFound message names
EntityNamed(fmt) ==
    CASE fmt = "Pet not found" -> "Pet"
      [] fmt = "Pet with id ${} not found" -> "Pet"
      [] fmt = "Veterinarian not found" -> "User"
      [] fmt = "Veterinarian with id ${} not found" -> "User"
      [] fmt = "User with id ${} not found" -> "User"
      [] fmt = "Appointment with id ${} not found" -> "Appointment"
      [] OTHER -> "none"

\* The references of a create handler's input: field and target entity
References(op) ==
    CASE op = "scheduleAppointment" -> {<<"petId", "Pet">>, <<"veterinarianId", "User">>}
      [] op = "addHealthRecord" -> {<<"petId", "Pet">>, <<"veterinarianId", "User">>}
      [] op = "addPrescription" -> {<<"petId", "Pet">>, <<"veterinarianId", "User">>}
      [] op = "sendMessage" -> {<<"senderId", "User">>, <<"recipientId", "User">>}
      [] op = "sendNotification" -> {<<"userId", "User">>}
      [] op = "makePayment" -> {<<"userId", "User">>, <<"appointmentId", "Appointment">>}
      [] op = "adoptPet" -> {<<"petId", "Pet">>, <<"adopterId", "User">>}
      [] OTHER -> {}

Collection(entity) ==
    CASE entity = "Pet" -> petsStorage
      [] entity = "User" -> usersStorage
      [] entity = "Appointment" -> appointmentsStorage

\* C6, as claimed: the NotFound a create handler returns names the entity
\* that is missing and carries the id that was looked up.
C6_NotFoundNamesEntityAndId ==
    ( /\ call.op \in CreateOps
      /\ call.res.kind = "Err"
      /\ call.res.err = "NotFound" )
    => \E ref \in References(call.op) :
          /\ call.arg[ref[1]] \notin DOMAIN Collection(ref[2])
          /\ EntityNamed(call.res.fmt) = ref[2]
          /\ call.res.args = <<call.arg[ref[1]]>>

\* The text fields of a create handler's input
TextFields(op) ==
    CASE op = "createUser" -> {"username", "email", "phoneNumber"}
      [] op = "addPet" -> {"ownerId", "name", "species", "breed"}
      [] op = "scheduleAppointment" -> {"petId", "veterinarianId", "date"}
      [] op = "addHealthRecord" -> {"petId", "veterinarianId", "record"}
      [] op = "addPrescription" -> {"petId", "veterinarianId", "medication", "dosage"}
      [] op = "sendMessage" -> {"senderId", "recipientId", "content"}
      [] op = "sendNotification" -> {"userId", "message"}
      [] op = "makePayment" -> {"userId", "appointmentId"}
      [] op = "adoptPet" -> {"petId", "adopterId"}

\* C7, as claimed: a create handler called with an empty text field returns
\* InvalidPayload and inserts nothing.
C7_EmptyTextFieldRejected ==
    [][ ( /\ call = Idle
          /\ call'.op \in CreateOps
          /\ \E f \in TextFields(call'.op) : call'.arg[f] = EmptyText )
        => /\ call'.res.kind = "Err"
           /\ call'.res.err = "InvalidPayload"
           /\ stores' = stores
      ]_vars

\* The collection a list-all query lists
Listed(op) ==
    CASE op = "getUsers" -> usersStorage
      [] op = "getPets" -> petsStorage
      [] op = "getAppointments" -> appointmentsStorage
      [] op = "getHealthRecords" -> healthRecordsStorage
      [] op = "getPrescriptions" -> prescriptionsStorage
      [] op = "getMessages" -> messagesStorage
      [] op = "getNotifications" -> notificationsStorage
      [] op = "getPayments" -> paymentsStorage
      [] op = "getPetAdoptions" -> petAdoptionsStorage

ListOps ==
    { "getUsers", "getPets", "getAppointments", "getHealthRecords",
      "getPrescriptions", "getMessages", "getNotifications", "getPayments",
      "getPetAdoptions" }

\* C8: a list-all query returns NotFound exactly when its collection is
\* empty, and otherwise Ok with exactly the records of the collection, each
\* once.  (A query leaves the collection as it is, so the collection in the
\* state that holds the result is the collection that was listed.)
C8_ListAll ==
    call.op \in ListOps =>
        LET map == Listed(call.op)
        IN  IF DOMAIN map = {}
            THEN call.res.kind = "Err" /\ call.res.err = "NotFound"
            ELSE /\ call.res.kind = "Ok"
                 /\ Len(call.res.val) = Cardinality(DOMAIN map)
                 /\ \A k \in DOMAIN map :
                        \E i \in 1..Len(call.res.val) : call.res.val[i] = map[k]

\* getPetAdoptions has returned a one-element sequence whose record has
\* status "pending".
C8_Witness ==
    /\ call.op = "getPetAdoptions"
    /\ call.res.kind = "Ok"
    /\ Len(call.res.val) = 1
    /\ call.res.val[1].status = "pending"

\* The ids of the records getUsers returns
getUsersIds ==
    IF getUsersResult.kind = "Ok"
    THEN {getUsersResult.val[i].id : i \in 1..Len(getUsersResult.val)}
    ELSE {}

\* C9: createUser with a payload that has every field present, a well-formed
\* email and phone number, and an email and a username no stored User has,
\* returns Ok with a new record; and getUsers returns a record with that id
\* right after the call and after every further operation.
C9_CreatedUserIsListed ==
    [][ /\ ( /\ Executes("createUser")
             /\ ~IsFalsyText(call'.arg.username)
             /\ ~IsFalsyText(call'.arg.email)
             /\ ~IsFalsyText(call'.arg.phoneNumber)
             /\ emailRegexTest(call'.arg.email)
             /\ phoneRegexTest(call'.arg.phoneNumber)
             /\ \A u \in Records(usersStorage) :
                    u.email # call'.arg.email /\ u.username # call'.arg.username )
           => /\ call'.res.kind = "Ok"
              /\ call'.res.val.id \notin getUsersIds
              /\ call'.res.val.id \in getUsersIds'
        /\ usersStorage' = usersStorage \/ getUsersIds \subseteq getUsersIds'
      ]_vars

\* createUser has returned Ok while another User was stored, and getUsers
\* lists both.
C9_Witness ==
    /\ call.op = "createUser"
    /\ call.res.kind = "Ok"
    /\ Cardinality(getUsersIds) = 2
    /\ call.res.val.id \in getUsersIds

\* The result of the list-all query that belongs to a create handler
ListResultOf(op) ==
    CASE op = "createUser" -> getUsersResult
      [] op = "addPet" -> getPetsResult
      [] op = "scheduleAppointment" -> getAppointmentsResult
      [] op = "addHealthRecord" -> getHealthRecordsResult
      [] op = "addPrescription" -> getPrescriptionsResult
      [] op = "sendMessage" -> getMessagesResult
      [] op = "sendNotification" -> getNotificationsResult
      [] op = "makePayment" -> getPaymentsResult
      [] op = "adoptPet" -> getPetAdoptionsResult

\* The fields a create handler adds to its input, with the default status
AddedFields(op) ==
    CASE op = "scheduleAppointment" -> {"id", "createdAt", "status"}
      [] op = "makePayment" -> {"id", "createdAt", "status"}
      [] op = "adoptPet" -> {"id", "createdAt", "status"}
      [] OTHER -> {"id", "createdAt"}

DefaultStatus(op) == IF op = "scheduleAppointment" THEN "scheduled" ELSE "pending"

\* C10: when a create handler returns Ok(r), the list-all query of its
\* collection, run next, returns exactly one record with r's id, and that
\* record is r; r has the fields of the input, with the input's values, and
\* besides them only id, createdAt and, for Appointment, Payment and
\* PetAdoption, the default status.
C10_RoundTrip ==
    [][ \A op \in CreateOps :
          ( Executes(op) /\ call'.res.kind = "Ok" )
          => LET r == call'.res.val
                 listed == ListResultOf(op)'
             IN  /\ listed.kind = "Ok"
                 /\ \E i \in 1..Len(listed.val) : listed.val[i] = r
                 /\ \A i \in 1..Len(listed.val) :
                        listed.val[i].id = r.id => listed.val[i] = r
                 /\ DOMAIN r = (DOMAIN call'.arg) \cup AddedFields(op)
                 /\ \A f \in DOMAIN call'.arg : r[f] = call'.arg[f]
                 /\ "status" \in DOMAIN r => r.status = DefaultStatus(op)
      ]_vars

\* addPet has returned Ok for a payload with an age other than 0 and an owner
\* that is the key of no User.
C10_Witness ==
    /\ call.op = "addPet"
    /\ call.res.kind = "Ok"
    /\ call.res.val.age # 0
    /\ call.res.val.ownerId \notin DOMAIN usersStorage
    /\ call.res.val \in Records(petsStorage)

\* C11: a record that is stored in one of the nine collections is stored
\* under the same key, with every field unchanged, after every step: no step
\* removes a record or changes a field of one, so each collection only grows.
\* (A step that leaves the nine collections as they are satisfies this.)
C11_RecordsNeverChange ==
    [][ \/ stores' = stores
        \/ \A i \in 1..Len(stores) :
              \A k \in DOMAIN stores[i] :
                 /\ k \in DOMAIN stores'[i]
                 /\ stores'[i][k] = stores[i][k]
      ]_vars

\* adoptPet has stored an adoption of a stored pet by a user who is not the
\* owner the pet was stored with.
C11_Witness ==
    /\ call.op = "adoptPet"
    /\ call.res.kind = "Ok"
    /\ call.arg.petId \in DOMAIN petsStorage
    /\ petsStorage[call.arg.petId].ownerId # call.arg.adopterId
    /\ call.res.val \in Records(petAdoptionsStorage)

\* C12: in every reachable state every Appointment has status "scheduled",
\* every Payment has status "pending" and every PetAdoption has status
\* "pending".  (As this holds in every reachable state, no step changes the
\* status of a record that stays stored.)
C12_StatusesFixed ==
    /\ \A r \in Records(appointmentsStorage) : r.status = "scheduled"
    /\ \A r \in Records(paymentsStorage) : r.status = "pending"
    /\ \A r \in Records(petAdoptionsStorage) : r.status = "pending"

\* An appointment and a payment for it are stored, and the result of
\* makePayment has been returned to the caller.
C12_Witness ==
    /\ call = Idle
    /\ \E p \in Records(paymentsStorage) :
          /\ p.appointmentId \in DOMAIN appointmentsStorage
          /\ appointmentsStorage[p.appointmentId].status = "scheduled"
          /\ p.status = "pending"

\* C13: a step in which a handler returns an error, InvalidPayload or
\* NotFound, leaves all nine collections as they were.
C13_ErrorWritesNothing ==
    [][ ( /\ call = Idle
          /\ call'.res.kind = "Err" )
        => stores' = stores
      ]_vars

\* makePayment has returned NotFound for a payload with an amount and a
\* userId that is the key of a User, while an appointment is stored.
C13_Witness ==
    /\ call.op = "makePayment"
    /\ call.res.kind = "Err"
    /\ call.res.err = "NotFound"
    /\ call.arg.userId \in DOMAIN usersStorage
    /\ call.arg.appointmentId \notin DOMAIN appointmentsStorage
    /\ appointmentsStorage # EmptyMap

FilteredOps == {"getUserPets", "getUserAppointments", "getUserHealthRecords"}

QueryOps == ListOps \cup FilteredOps

\* The arguments a query can be called with
QueryArgs(op) == IF op \in FilteredOps THEN IdTexts ELSE {<<>>}

\* The result the query `op` returns for `arg` in the current state
QueryResult(op, arg) ==
    CASE op = "getUsers" -> getUsersResult
      [] op = "getPets" -> getPetsResult
      [] op = "getAppointments" -> getAppointmentsResult
      [] op = "getHealthRecords" -> getHealthRecordsResult
      [] op = "getPrescriptions" -> getPrescriptionsResult
      [] op = "getMessages" -> getMessagesResult
      [] op = "getNotifications" -> getNotificationsResult
      [] op = "getPayments" -> getPaymentsResult
      [] op = "getPetAdoptions" -> getPetAdoptionsResult
      [] op = "getUserPets" -> getUserPetsResult(arg)
      [] op = "getUserAppointments" -> getUserAppointmentsResult(arg)
      [] op = "getUserHealthRecords" -> getUserHealthRecordsResult(arg)

\* A step in which a create handler returns Ok
SuccessfulCreate ==
    /\ call = Idle
    /\ call'.op \in CreateOps
    /\ call'.res.kind = "Ok"

\* C14: a query leaves all nine collections unchanged, and two calls of the
\* same query with the same argument and no successful create in between
\* return the same result, the same records in the same order.  Stated step
\* by step: a step that executes a query changes no collection, and the
\* result it returns is the result the same query with the same argument
\* returns in the state it leaves; and a step that is not a successful create
\* changes the result of no query for no argument.
C14_QueriesRepeatable ==
    [][ /\ ( call = Idle /\ call'.op \in QueryOps )
           => /\ stores' = stores
              /\ \A op \in QueryOps : \A arg \in QueryArgs(op) :
                    ( call'.op = op /\ call'.arg = arg )
                    => call'.res = QueryResult(op, arg)'
        /\ \/ stores' = stores
           \/ SuccessfulCreate
           \/ \A op \in QueryOps : \A arg \in QueryArgs(op) :
                 QueryResult(op, arg)' = QueryResult(op, arg)
      ]_vars

\* getUserPets has returned two pets of one owner, and the same query with
\* the same argument returns the same sequence again.
C14_Witness ==
    /\ call.op = "getUserPets"
    /\ call.res.kind = "Ok"
    /\ Len(call.res.val) = 2
    /\ call.res = getUserPetsResult(call.arg)

\* C15, as claimed: getUserAppointments(u) returns Ok with every Appointment
\* of every Pet whose ownerId is u, and getUserHealthRecords(u) returns Ok
\* with every HealthRecord of every Pet whose ownerId is u.
C15_RecordsOfOwnedPets ==
    /\ call.op = "getUserAppointments"
       => \A p \in Records(petsStorage) : \A a \in Records(appointmentsStorage) :
             ( p.ownerId = call.arg /\ a.petId = p.id )
             => /\ call.res.kind = "Ok"
                /\ \E i \in 1..Len(call.res.val) : call.res.val[i] = a
    /\ call.op = "getUserHealthRecords"
       => \A p \in Records(petsStorage) : \A h \in Records(healthRecordsStorage) :
             ( p.ownerId = call.arg /\ h.petId = p.id )
             => /\ call.res.kind = "Ok"
                /\ \E i \in 1..Len(call.res.val) : call.res.val[i] = h

\* The collection a filtered query selects from
FilteredFrom(op) ==
    CASE op = "getUserPets" -> petsStorage
      [] op = "getUserAppointments" -> appointmentsStorage
      [] op = "getUserHealthRecords" -> healthRecordsStorage

\* The field a filtered query compares with its argument
FilterField(op) ==
    CASE op = "getUserPets" -> "ownerId"
      [] op = "getUserAppointments" -> "petId"
      [] op = "getUserHealthRecords" -> "petId"

Owned(op) ==
    CASE op = "createUser" -> usersStorage
      [] op = "addPet" -> petsStorage
      [] op = "scheduleAppointment" -> appointmentsStorage
      [] op = "addHealthRecord" -> healthRecordsStorage
      [] op = "addPrescription" -> prescriptionsStorage
      [] op = "sendMessage" -> messagesStorage
      [] op = "sendNotification" -> notificationsStorage
      [] op = "makePayment" -> paymentsStorage
      [] op = "adoptPet" -> petAdoptionsStorage

\* Every entry of every collection is stored under the id of its record.
KeysAreIds ==
    /\ \A k \in DOMAIN usersStorage : usersStorage[k].id = k
    /\ \A k \in DOMAIN petsStorage : petsStorage[k].id = k
    /\ \A k \in DOMAIN appointmentsStorage : appointmentsStorage[k].id = k
    /\ \A k \in DOMAIN healthRecordsStorage : healthRecordsStorage[k].id = k
    /\ \A k \in DOMAIN prescriptionsStorage : prescriptionsStorage[k].id = k
    /\ \A k \in DOMAIN messagesStorage : messagesStorage[k].id = k
    /\ \A k \in DOMAIN notificationsStorage : notificationsStorage[k].id = k
    /\ \A k \in DOMAIN paymentsStorage : paymentsStorage[k].id = k
    /\ \A k \in DOMAIN petAdoptionsStorage : petAdoptionsStorage[k].id = k

\* C17: with an identifier generator that never returns an id twice, in
\* every reachable state every entry of every collection is stored under the
\* id of its record (so no two records of a collection have the same id), and
\* a create handler that returns Ok stores its record under a key that was
\* not in its collection: the collection grows by exactly one entry.
\* (The collections are empty initially, so it is enough that every step
\* that changes a collection reaches a state where the keys are the ids.)
C17_KeysAreIds ==
    [][ /\ stores' = stores \/ KeysAreIds'
        /\ \A op \in CreateOps :
              ( Executes(op) /\ call'.res.kind = "Ok" )
              => /\ call'.res.val.id \notin DOMAIN Owned(op)
                 /\ call'.res.val.id \in DOMAIN Owned(op)'
                 /\ Cardinality(DOMAIN Owned(op)') = Cardinality(DOMAIN Owned(op)) + 1
      ]_vars

\* sendNotification has stored a second notification for a user.
C17_Witness ==
    /\ call.op = "sendNotification"
    /\ call.res.kind = "Ok"
    /\ Cardinality(DOMAIN notificationsStorage) = 2
    /\ call.res.val.id \in DOMAIN notificationsStorage
    /\ call.res.val.id # call.res.val.userId

\* C18: addPet called with a name, a species and a breed that are not empty
\* returns Ok and inserts the Pet, with the ownerId of the payload, whatever
\* that ownerId is.  (That a Pet whose ownerId is the key of no User is
\* stored while no User is stored is the state C18_Witness describes.)
C18_AddPetNoOwnerCheck ==
    [][ ( /\ Executes("addPet")
          /\ call'.arg.name # EmptyText
          /\ call'.arg.species # EmptyText
          /\ call'.arg.breed # EmptyText )
        => /\ call'.res.kind = "Ok"
           /\ call'.res.val.ownerId = call'.arg.ownerId
           /\ call'.res.val.id \notin DOMAIN petsStorage
           /\ petsStorage' = Insert(petsStorage, call'.res.val.id, call'.res.val)
      ]_vars

\* addPet has stored a Pet whose ownerId is a non-empty text that is the key
\* of no User, while the User collection is empty.
C18_Witness ==
    /\ usersStorage = EmptyMap
    /\ call.op = "addPet"
    /\ call.res.kind = "Ok"
    /\ call.arg.ownerId # EmptyText
    /\ \E k \in DOMAIN petsStorage :
          /\ petsStorage[k] = call.res.val
          /\ petsStorage[k].ownerId = call.arg.ownerId
          /\ petsStorage[k].ownerId \notin DOMAIN usersStorage

StorageNames ==
    { "usersStorage", "petsStorage", "appointmentsStorage", "healthRecordsStorage",
      "prescriptionsStorage", "messagesStorage", "notificationsStorage",
      "paymentsStorage", "petAdoptionsStorage" }

Storage(name) ==
    CASE name = "usersStorage" -> usersStorage
      [] name = "petsStorage" -> petsStorage
      [] name = "appointmentsStorage" -> appointmentsStorage
      [] name = "healthRecordsStorage" -> healthRecordsStorage
      [] name = "prescriptionsStorage" -> prescriptionsStorage
      [] name = "messagesStorage" -> messagesStorage
      [] name = "notificationsStorage" -> notificationsStorage
      [] name = "paymentsStorage" -> paymentsStorage
      [] name = "petAdoptionsStorage" -> petAdoptionsStorage

\* The collection a create handler calls insert on
InsertsInto(op) ==
    CASE op = "createUser" -> "usersStorage"
      [] op = "addPet" -> "petsStorage"
      [] op = "scheduleAppointment" -> "appointmentsStorage"
      [] op = "addHealthRecord" -> "healthRecordsStorage"
      [] op = "addPrescription" -> "prescriptionsStorage"
      [] op = "sendMessage" -> "messagesStorage"
      [] op = "sendNotification" -> "notificationsStorage"
      [] op = "makePayment" -> "paymentsStorage"
      [] op = "adoptPet" -> "petAdoptionsStorage"

\* The collections a handler calls get or values on, when no check of it
\* fails before
Reads(op) ==
    CASE op = "createUser" -> {"usersStorage"}
      [] op = "addPet" -> {}
      [] op = "scheduleAppointment" -> {"petsStorage", "usersStorage"}
      [] op = "addHealthRecord" -> {"petsStorage", "usersStorage"}
      [] op = "addPrescription" -> {"petsStorage", "usersStorage"}
      [] op = "sendMessage" -> {"usersStorage"}
      [] op = "sendNotification" -> {"usersStorage"}
      [] op = "makePayment" -> {"usersStorage", "appointmentsStorage"}
      [] op = "adoptPet" -> {"petsStorage", "usersStorage"}
      [] op = "getUsers" -> {"usersStorage"}
      [] op = "getPets" -> {"petsStorage"}
      [] op = "getAppointments" -> {"appointmentsStorage"}
      [] op = "getHealthRecords" -> {"healthRecordsStorage"}
      [] op = "getPrescriptions" -> {"prescriptionsStorage"}
      [] op = "getMessages" -> {"messagesStorage"}
      [] op = "getNotifications" -> {"notificationsStorage"}
      [] op = "getPayments" -> {"paymentsStorage"}
      [] op = "getPetAdoptions" -> {"petAdoptionsStorage"}
      [] op = "getUserPets" -> {"petsStorage"}
      [] op = "getUserAppointments" -> {"appointmentsStorage"}
      [] op = "getUserHealthRecords" -> {"healthRecordsStorage"}

\* The name of the collection of an entity a NotFound message names
StorageOf(entity) ==
    CASE entity = "Pet" -> "petsStorage"
      [] entity = "User" -> "usersStorage"
      [] entity = "Appointment" -> "appointmentsStorage"

\* The collections a step changes
Written ==
    IF stores' = stores
    THEN {}
    ELSE { name \in StorageNames : Storage(name)' # Storage(name) }

\* A handler's reads are what its results show: a create handler that returns
\* Ok has found every reference of its payload in a collection it reads, and
\* one that returns NotFound reports an entity of a collection it reads.
ReadsShown ==
    /\ call'.op \in CreateOps /\ call'.res.kind = "Ok"
       => \A ref \in References(call'.op) :
             /\ StorageOf(ref[2]) \in Reads(call'.op)
             /\ call'.arg[ref[1]] \in DOMAIN Storage(StorageOf(ref[2]))
    /\ call'.op \in CreateOps /\ call'.res.kind = "Err" /\ call'.res.err = "NotFound"
       => StorageOf(EntityNamed(call'.res.fmt)) \in Reads(call'.op)

\* C19, as claimed: no handler touches more than two collections in one
\* invocation, counting the collection it writes or lists and the collections
\* it reads for referential validation; a create handler writes to exactly one
\* collection, its own.
C19_Original ==
    [][ call = Idle
        => /\ Cardinality(Reads(call'.op) \cup Written) <= 2
           /\ call'.op \in CreateOps /\ call'.res.kind = "Ok"
              => Written = {InsertsInto(call'.op)}
      ]_vars

\* C19, amended: no handler touches more than three collections in one
\* invocation; a create handler that returns Ok writes to exactly one
\* collection, its own, and every other invocation writes to none.
C19_TouchesAtMostThree ==
    [][ call = Idle
        => /\ Cardinality(Reads(call'.op) \cup Written) <= 3
           /\ ReadsShown
           /\ Written =
                IF call'.op \in CreateOps /\ call'.res.kind = "Ok"
                THEN {InsertsInto(call'.op)}
                ELSE {}
      ]_vars

\* addPrescription has stored a prescription for a stored pet, by a stored
\* user: it read the Pet and the User collection and wrote its own.
C19_Witness ==
    /\ call.op = "addPrescription"
    /\ call.res.kind = "Ok"
    /\ call.arg.petId \in DOMAIN petsStorage
    /\ call.arg.veterinarianId \in DOMAIN usersStorage
    /\ call.res.val \in Records(prescriptionsStorage)
    /\ healthRecordsStorage = EmptyMap

\* C20: makePayment called with the amount 0 returns InvalidPayload, also
\* when userId and appointmentId are keys of a User and of an Appointment; and
\* in every reachable state the amount of every stored Payment is greater
\* than 0.  (A call that returns an error changes no collection, so the
\* collections in the state that holds the result are those the call found.)
C20_ZeroAmountRejected ==
    /\ ( call.op = "makePayment" /\ call.arg.amount = 0 )
       => ( call.res.kind = "Err" /\ call.res.err = "InvalidPayload" )
    /\ \A r \in Records(paymentsStorage) : r.amount > 0

\* makePayment has returned InvalidPayload for the amount 0, a userId that is
\* the key of a User and an appointmentId that is the key of an Appointment,
\* while a Payment is stored.
C20_Witness ==
    /\ call.op = "makePayment"
    /\ call.arg.amount = 0
    /\ call.arg.userId \in DOMAIN usersStorage
    /\ call.arg.appointmentId \in DOMAIN appointmentsStorage
    /\ call.res.kind = "Err"
    /\ call.res.err = "InvalidPayload"
    /\ paymentsStorage # EmptyMap

====
